---- MODULE Spec2Model ----
(***************************************************************************)
(* A model of src/backend/installer.py (InstallerManager): the install     *)
(* job that fetches a manifest, stages the icon, submits the missing       *)
(* dependencies, performs the steps, applies the parameters, registers the *)
(* executable arguments, writes the desktop entry and signals the widget.  *)
(***************************************************************************)
EXTENDS Integers, Sequences, FiniteSets, TLC

VARIABLES
    jobs,           \* the installs the caller asks for
    catalog,        \* which catalog of installers the repository holds
    flatpak,        \* "FLATPAK_ID" in os.environ
    installedDeps,  \* configuration["Installed_Dependencies"]
    params,         \* configuration["Parameters"]
    programs,       \* configuration["Programs"]
    iconFiles,      \* the files present under <bottle>/icons
    desktopFiles,   \* the files present under Paths.applications
    now,            \* the last value datetime.now().timestamp() returned
    depJobs,        \* dependency installs the manager has accepted and not finished
    idle,           \* the callbacks GLib.idle_add has queued for the main loop
    pc,             \* per install: the position of its job, or the exception
                    \* that ended it
    widget,         \* per install: whether a widget was passed to install()
    manifest,       \* per install: what get_installer returned
    thread,         \* per install: the thread that runs its job
    idx,            \* per install: the loop index of the for loop it is in
    viewed,         \* the get_installer(plain=True) call the caller is in
    calls           \* per install: the calls made on its behalf, in order

vars == <<jobs, catalog, flatpak, installedDeps, params, programs, iconFiles,
          desktopFiles, now, depJobs, idle, pc, widget, manifest, thread, idx,
          viewed, calls>>

-----------------------------------------------------------------------------
(* Bounds and value domains *)

MaxDeps == 2
MaxSteps == 3
MaxTime == 1

None == "None"
Installs == {1, 2}
Deps == {"d1", "d2"}
ParamKeys == {"dxvk", "vkd3d", "sync"}
ParamOrder == <<"dxvk", "vkd3d", "sync">>
StepActions == {"install_exe", "install_msi", "other"}

\* What get_installer returns when the manifest cannot be had (False)
Unavailable == [available |-> FALSE]

\* What get_installer returns for plain=True: the document, not parsed
RawText(m) == [text |-> m]

\* An exception leaving get_installer
Raised == [raised |-> TRUE]

\* How the request for the document can go
FetchOutcomes == {"ok", "request_failed", "parse_failed"}

\* The caller is not in get_installer
NotViewing == [op |-> "none"]

DepLists == UNION {[1..n -> Deps] : n \in 0..MaxDeps}

StepKinds ==
    [action: StepActions, file_name: {"setup.exe"}, rename: {None},
     arguments: {None}, environment: {None}]
    \cup
    [action: {"install_msi"}, file_name: {"setup.msi"}, rename: {"inst.msi"},
     arguments: {"/S"}, environment: {"WINEDEBUG"}]

StepLists == UNION {[1..n -> StepKinds] : n \in 0..MaxSteps}

ParamMaps == UNION {[K -> BOOLEAN] : K \in SUBSET ParamKeys}

Executables ==
    [file: {"app.exe"}, icon: {None, "app.png"}, arguments: {None, "-w"}]

Manifests(deps, steps, pmaps, execs) ==
    [Name: {"app"}, Dependencies: deps, Steps: steps, Parameters: pmaps,
     Executable: execs]

OneDep == {<<"d1">>}
OneStep ==
    {<<[action |-> "install_exe", file_name |-> "setup.exe", rename |-> None,
        arguments |-> None, environment |-> None]>>}
OneParam == {[dxvk |-> TRUE]}
OneExecutable == {[file |-> "app.exe", icon |-> "app.png", arguments |-> "-w"]}
Bare == {[file |-> "app.exe", icon |-> None, arguments |-> None]}

\* The manifests the repository serves, by catalog
Served(c) ==
    CASE c = "both" ->
            Manifests(OneDep, OneStep, OneParam, OneExecutable)
            \cup Manifests({<<>>}, {<<>>}, {<<>>}, Bare)
      [] c = "dependencies" ->
            Manifests(DepLists, OneStep, OneParam, OneExecutable)
      [] c = "steps" ->
            Manifests(OneDep, StepLists, OneParam, OneExecutable)
      [] c = "parameters" ->
            Manifests(OneDep, OneStep, ParamMaps, OneExecutable)

-----------------------------------------------------------------------------
(* Initial states *)

Envs(flatpaks, installed, parameters, icons) ==
    [flatpak: flatpaks, Installed_Dependencies: installed,
     Parameters: parameters, icons: icons]

InitWith(asked, cat, envs) ==
    /\ jobs = asked
    /\ catalog = cat
    /\ \E env \in envs :
         /\ flatpak = env.flatpak
         /\ installedDeps = env.Installed_Dependencies
         /\ params = env.Parameters
         /\ iconFiles = env.icons
    /\ programs = <<>>
    /\ desktopFiles = <<>>
    /\ now = 0
    /\ depJobs = {}
    /\ idle = <<>>
    /\ pc = [i \in Installs |-> "idle"]
    /\ widget = [i \in Installs |-> FALSE]
    /\ manifest = [i \in Installs |-> Unavailable]
    /\ thread = [i \in Installs |-> None]
    /\ idx = [i \in Installs |-> 0]
    /\ viewed = NotViewing
    /\ calls = [i \in Installs |-> <<>>]

-----------------------------------------------------------------------------
(* Helpers *)

Available(m) == "Name" \in DOMAIN m

Log(i, es) == calls' = [calls EXCEPT ![i] = @ \o es]

\* (mutant) line 218 without its test
EnterArgsAlways(m) == "args"

\* The stage __async_install runs next, from the guards of lines 206-218
EnterArgs(m) ==
    IF m.Executable.arguments # None THEN "args" ELSE "desktop"

\* (mutant) the parameters are never applied
EnterParamsSkipped(m) == EnterArgs(m)

EnterParams(m) ==
    IF DOMAIN m.Parameters # {} THEN "params" ELSE EnterArgs(m)

EnterSteps(m) ==
    IF Len(m.Steps) > 0 THEN "steps" ELSE EnterParams(m)

EnterDeps(m) ==
    IF Len(m.Dependencies) > 0 THEN "deps" ELSE EnterSteps(m)

-----------------------------------------------------------------------------
(* install: hands the job to RunAsync *)

\* RunAsync(task, callback, args): the task runs on a background worker
RunAsync(i) ==
    /\ thread' = [thread EXCEPT ![i] = "worker"]
    /\ pc' = [pc EXCEPT ![i] = "fetch"]

Install(i) ==
    /\ i \in jobs
    /\ viewed = NotViewing
    /\ pc[i] = "idle"
    /\ \E w \in BOOLEAN : widget' = [widget EXCEPT ![i] = w]
    /\ RunAsync(i)
    /\ Log(i, <<[op |-> "RunAsync", by |-> "caller"]>>)
    /\ UNCHANGED <<viewed, jobs, catalog, flatpak, installedDeps, params, programs, iconFiles,
                   desktopFiles, now, depJobs, idle, manifest, idx>>

-----------------------------------------------------------------------------
(* get_installer and the head of __async_install *)

\* (mutant) get_installer without its try/except
GetInstallerResultNoExcept(conn, outcome, plain) ==
    IF ~conn THEN {Unavailable}
    ELSE IF outcome # "ok" THEN {Raised}
    ELSE IF plain THEN {RawText(m) : m \in Served(catalog)}
    ELSE Served(catalog)

\* get_installer: False without a connection (line 79) or when the request
\* or the parsing fails (lines 75-77); the text (line 71) or the manifest
\* (line 74) otherwise
GetInstallerResult(conn, outcome, plain) ==
    IF ~conn THEN {Unavailable}
    ELSE IF outcome # "ok" THEN {Unavailable}
    ELSE IF plain THEN {RawText(m) : m \in Served(catalog)}
    ELSE Served(catalog)

\* What kind of value get_installer gave
Returned(r) ==
    IF "raised" \in DOMAIN r THEN "raised"
    ELSE IF "available" \in DOMAIN r THEN "False"
    ELSE IF "text" \in DOMAIN r THEN "text"
    ELSE "manifest"

\* lines 59-65: urlopen is called only when check_connection() holds
Requested(conn) == conn

\* The record of one get_installer call
GetInstallerCall(conn, outcome, plain, r, by) ==
    [op |-> "get_installer", conn |-> conn,
     outcome |-> IF conn THEN outcome ELSE "none",
     urlopen |-> Requested(conn), plain |-> plain, returned |-> Returned(r),
     by |-> by]

\* manifest.get(...) on False raises AttributeError out of __async_install
AfterFetch(m) ==
    IF ~Available(m) THEN "AttributeError"
    ELSE IF m.Executable.icon # None THEN "icon" ELSE EnterDeps(m)

AsyncInstallFetch(i) ==
    /\ pc[i] = "fetch"
    /\ \E conn \in BOOLEAN, outcome \in FetchOutcomes :
         \E m \in GetInstallerResult(conn, outcome, FALSE) :
            /\ manifest' = [manifest EXCEPT ![i] = m]
            /\ Log(i, <<GetInstallerCall(conn, outcome, FALSE, m, thread[i])>>)
            /\ pc' = [pc EXCEPT ![i] = AfterFetch(m)]
    /\ idx' = [idx EXCEPT ![i] = 1]
    /\ UNCHANGED <<viewed, jobs, catalog, flatpak, installedDeps, params, programs, iconFiles,
                   desktopFiles, now, depJobs, idle, widget, thread>>

-----------------------------------------------------------------------------
(* get_installer(plain=True), called by the caller of the manager *)

\* The caller asks for the text of a manifest; it does so before it starts
\* an install, and is in the call until the call returns
GetInstallerPlain ==
    /\ viewed = NotViewing
    /\ \A i \in Installs : pc[i] = "idle"
    /\ \E conn \in BOOLEAN, outcome \in FetchOutcomes :
         \E r \in GetInstallerResult(conn, outcome, TRUE) :
            viewed' = GetInstallerCall(conn, outcome, TRUE, r, "caller")
    /\ UNCHANGED <<jobs, catalog, flatpak, installedDeps, params, programs,
                   iconFiles, desktopFiles, now, depJobs, idle, pc, widget,
                   manifest, thread, idx, calls>>

GetInstallerPlainReturns ==
    /\ viewed # NotViewing
    /\ viewed' = NotViewing
    /\ UNCHANGED <<jobs, catalog, flatpak, installedDeps, params, programs,
                   iconFiles, desktopFiles, now, depJobs, idle, pc, widget,
                   manifest, thread, idx, calls>>

-----------------------------------------------------------------------------
(* __download_icon *)

\* os.path.isfile(icon_path) decides whether urlretrieve is called
DownloadIconCheck(i) ==
    /\ pc[i] = "icon"
    /\ pc' = [pc EXCEPT ![i] =
                IF manifest[i].Executable.icon \in iconFiles
                THEN EnterDeps(manifest[i]) ELSE "retrieve"]
    /\ UNCHANGED <<viewed, jobs, catalog, flatpak, installedDeps, params, programs, iconFiles,
                   desktopFiles, now, depJobs, idle, widget, manifest, thread,
                   idx, calls>>

\* urllib.request.urlretrieve(icon_url, icon_path): nothing catches its error
DownloadIconRetrieve(i) ==
    /\ pc[i] = "retrieve"
    /\ Log(i, <<[op |-> "urlretrieve", path |-> manifest[i].Executable.icon,
                 by |-> thread[i]]>>)
    /\ \/ /\ iconFiles' = iconFiles \cup {manifest[i].Executable.icon}
          /\ pc' = [pc EXCEPT ![i] = EnterDeps(manifest[i])]
       \/ /\ \E left \in BOOLEAN :
                iconFiles' = IF left
                             THEN iconFiles \cup {manifest[i].Executable.icon}
                             ELSE iconFiles
          /\ pc' = [pc EXCEPT ![i] = "URLError"]
    /\ UNCHANGED <<viewed, jobs, catalog, flatpak, installedDeps, params, programs,
                   desktopFiles, now, depJobs, idle, widget, manifest, thread,
                   idx>>

-----------------------------------------------------------------------------
(* __install_dependencies *)

\* (mutant) the membership test of line 97 dropped
IsMissingAlways(dep, installed) == TRUE

\* line 97: a dependency already installed is skipped
IsMissing(dep, installed) == dep \notin installed

\* (mutant) an iteration waits for the installs submitted before it
InstallDependencyAfterPrevious(i) ==
    /\ pc[i] = "deps"
    /\ depJobs = {}
    /\ LET m == manifest[i]
           dep == m.Dependencies[idx[i]]
       IN /\ IF IsMissing(dep, installedDeps)
             THEN /\ Log(i, <<[op |-> "async_install_dependency", dep |-> dep,
                               by |-> thread[i]]>>)
                  /\ depJobs' = depJobs \cup {dep}
             ELSE UNCHANGED <<calls, depJobs>>
          /\ IF idx[i] < Len(m.Dependencies)
             THEN /\ idx' = [idx EXCEPT ![i] = @ + 1]
                  /\ UNCHANGED pc
             ELSE /\ idx' = [idx EXCEPT ![i] = 1]
                  /\ pc' = [pc EXCEPT ![i] = EnterSteps(m)]
    /\ UNCHANGED <<viewed, jobs, catalog, flatpak, installedDeps, params,
                   programs, iconFiles, desktopFiles, now, idle, widget,
                   manifest, thread>>

\* (mutant) the loop marks the dependency as installed itself
InstallDependencyMarking(i) ==
    /\ pc[i] = "deps"
    /\ LET m == manifest[i]
           dep == m.Dependencies[idx[i]]
       IN /\ IF IsMissing(dep, installedDeps)
             THEN /\ Log(i, <<[op |-> "async_install_dependency", dep |-> dep,
                               by |-> thread[i]]>>)
                  /\ depJobs' = depJobs \cup {dep}
                  /\ installedDeps' = installedDeps \cup {dep}
             ELSE UNCHANGED <<calls, depJobs, installedDeps>>
          /\ IF idx[i] < Len(m.Dependencies)
             THEN /\ idx' = [idx EXCEPT ![i] = @ + 1]
                  /\ UNCHANGED pc
             ELSE /\ idx' = [idx EXCEPT ![i] = 1]
                  /\ pc' = [pc EXCEPT ![i] = EnterSteps(m)]
    /\ UNCHANGED <<viewed, jobs, catalog, flatpak, params, programs, iconFiles,
                   desktopFiles, now, idle, widget, manifest, thread>>

\* One iteration of the for loop
InstallDependency(i) ==
    /\ pc[i] = "deps"
    /\ LET m == manifest[i]
           dep == m.Dependencies[idx[i]]
       IN /\ IF IsMissing(dep, installedDeps)
             THEN /\ Log(i, <<[op |-> "async_install_dependency", dep |-> dep,
                               by |-> thread[i]]>>)
                  /\ depJobs' = depJobs \cup {dep}
             ELSE UNCHANGED <<calls, depJobs>>
          /\ IF idx[i] < Len(m.Dependencies)
             THEN /\ idx' = [idx EXCEPT ![i] = @ + 1]
                  /\ UNCHANGED pc
             ELSE /\ idx' = [idx EXCEPT ![i] = 1]
                  /\ pc' = [pc EXCEPT ![i] = EnterSteps(m)]
    /\ UNCHANGED <<viewed, jobs, catalog, flatpak, installedDeps, params, programs, iconFiles,
                   desktopFiles, now, idle, widget, manifest, thread>>

\* The manager's dependency install, started by async_install_dependency,
\* ends on its own thread: with the dependency installed, or without
DependencyInstallEnds(dep) ==
    /\ dep \in depJobs
    /\ depJobs' = depJobs \ {dep}
    /\ \E ok \in BOOLEAN :
          installedDeps' = IF ok THEN installedDeps \cup {dep} ELSE installedDeps
    /\ UNCHANGED <<viewed, jobs, catalog, flatpak, params, programs, iconFiles, desktopFiles,
                   now, idle, pc, widget, manifest, thread, idx, calls>>

-----------------------------------------------------------------------------
(* __perform_steps *)

\* line 109: only these actions are staged and launched
IsInstallAction(st) == st.action \in {"install_exe", "install_msi"}

\* (mutant) rename ignored
StepFileName(st) == st.file_name

\* lines 118-121: the staged file is named by rename when one is given
StepFile(st) == IF st.rename # None THEN st.rename ELSE st.file_name

\* The for loop moves to the next step, or __perform_steps returns
NextStep(i) ==
    IF idx[i] < Len(manifest[i].Steps)
    THEN /\ idx' = [idx EXCEPT ![i] = @ + 1]
         /\ pc' = [pc EXCEPT ![i] = "steps"]
    ELSE /\ idx' = [idx EXCEPT ![i] = 1]
         /\ pc' = [pc EXCEPT ![i] = EnterParams(manifest[i])]

\* (mutant) a failed download ends the whole loop
AfterDownloadAbort(i, download) ==
    /\ Log(i, <<[op |-> "download", step |-> idx[i], result |-> download,
                 by |-> thread[i]]>>)
    /\ IF download
       THEN /\ pc' = [pc EXCEPT ![i] = "launch"]
            /\ UNCHANGED idx
       ELSE /\ idx' = [idx EXCEPT ![i] = 1]
            /\ pc' = [pc EXCEPT ![i] = EnterParams(manifest[i])]

\* lines 109-117: component_manager.download stages the payload and tells
\* whether it succeeded; the launch follows only a success
AfterDownload(i, download) ==
    /\ Log(i, <<[op |-> "download", step |-> idx[i], result |-> download,
                 by |-> thread[i]]>>)
    /\ IF download
       THEN /\ pc' = [pc EXCEPT ![i] = "launch"]
            /\ UNCHANGED idx
       ELSE NextStep(i)

PerformStepDownload(i) ==
    /\ pc[i] = "steps"
    /\ LET st == manifest[i].Steps[idx[i]]
       IN IF IsInstallAction(st)
          THEN \E download \in BOOLEAN : AfterDownload(i, download)
          ELSE /\ NextStep(i)
               /\ UNCHANGED calls
    /\ UNCHANGED <<viewed, jobs, catalog, flatpak, installedDeps, params, programs, iconFiles,
                   desktopFiles, now, depJobs, idle, widget, manifest, thread>>

\* (mutant) the launch is not waited for
PerformStepLaunchNoWait(i) ==
    /\ pc[i] = "launch"
    /\ LET st == manifest[i].Steps[idx[i]]
       IN Log(i, <<[op |-> "run_executable", step |-> idx[i],
                    file |-> StepFile(st), arguments |-> st.arguments,
                    environment |-> st.environment, by |-> thread[i]]>>)
    /\ NextStep(i)
    /\ UNCHANGED <<viewed, jobs, catalog, flatpak, installedDeps, params, programs,
                   iconFiles, desktopFiles, now, depJobs, idle, widget,
                   manifest, thread>>

\* lines 123-127: Runner().run_executable is called ...
PerformStepLaunch(i) ==
    /\ pc[i] = "launch"
    /\ LET st == manifest[i].Steps[idx[i]]
       IN Log(i, <<[op |-> "run_executable", step |-> idx[i],
                    file |-> StepFile(st), arguments |-> st.arguments,
                    environment |-> st.environment, by |-> thread[i]]>>)
    /\ pc' = [pc EXCEPT ![i] = "running"]
    /\ UNCHANGED <<viewed, jobs, catalog, flatpak, installedDeps, params, programs, iconFiles,
                   desktopFiles, now, depJobs, idle, widget, manifest, thread,
                   idx>>

\* ... and the loop goes on when it returns
PerformStepReturn(i) ==
    /\ pc[i] = "running"
    /\ Log(i, <<[op |-> "run_returned", step |-> idx[i], by |-> thread[i]]>>)
    /\ NextStep(i)
    /\ UNCHANGED <<viewed, jobs, catalog, flatpak, installedDeps, params, programs, iconFiles,
                   desktopFiles, now, depJobs, idle, widget, manifest, thread>>

-----------------------------------------------------------------------------
(* __set_parameters *)

\* parameters.get(key) as a condition: a missing key gives None
ParamGet(parameters, key) == key \in DOMAIN parameters /\ parameters[key]

\* (mutant) line 130 without its "not"
TriggersDxvkWhenEnabled(parameters, current) ==
    ParamGet(parameters, "dxvk") /\ current["dxvk"]

\* line 130
TriggersDxvk(parameters, current) ==
    ParamGet(parameters, "dxvk") /\ ~current["dxvk"]

\* line 133
TriggersVkd3d(parameters, current) ==
    ParamGet(parameters, "vkd3d") /\ current["vkd3d"]

\* (mutant) the toggles are left to their install routines
ParameterUpdatesButToggles(parameters, by) ==
    LET keys == SelectSeq(ParamOrder, LAMBDA k : k \in DOMAIN parameters
                                                 /\ k \notin {"dxvk", "vkd3d"})
    IN [j \in 1..Len(keys) |->
          [op |-> "update_configuration", scope |-> "Parameters",
           key |-> keys[j], value |-> parameters[keys[j]], by |-> by]]

\* lines 136-142: one update_configuration per key of the map (the keys are
\* taken in the order of ParamOrder)
ParameterUpdates(parameters, by) ==
    LET keys == SelectSeq(ParamOrder, LAMBDA k : k \in DOMAIN parameters)
    IN [j \in 1..Len(keys) |->
          [op |-> "update_configuration", scope |-> "Parameters",
           key |-> keys[j], value |-> parameters[keys[j]], by |-> by]]

\* The calls of one __set_parameters, in the order the code makes them
SetParametersCalls(parameters, current, by) ==
    (IF TriggersDxvk(parameters, current)
     THEN <<[op |-> "install_dxvk", by |-> by]>> ELSE <<>>)
    \o (IF TriggersVkd3d(parameters, current)
        THEN <<[op |-> "install_vkd3d", by |-> by]>> ELSE <<>>)
    \o ParameterUpdates(parameters, by)

\* update_configuration(key, value, scope="Parameters") for every key
UpdatedParameters(parameters, current) ==
    [k \in ParamKeys |->
        IF k \in DOMAIN parameters THEN parameters[k] ELSE current[k]]

SetParameters(i) ==
    /\ pc[i] = "params"
    /\ LET parameters == manifest[i].Parameters
       IN /\ Log(i, SetParametersCalls(parameters, params, thread[i]))
          /\ params' = UpdatedParameters(parameters, params)
    /\ pc' = [pc EXCEPT ![i] = EnterArgs(manifest[i])]
    /\ UNCHANGED <<viewed, jobs, catalog, flatpak, installedDeps, programs, iconFiles,
                   desktopFiles, now, depJobs, idle, widget, manifest, thread,
                   idx>>

-----------------------------------------------------------------------------
(* __set_executable_arguments *)

SetExecutableArguments(i) ==
    /\ pc[i] = "args"
    /\ LET executable == manifest[i].Executable
       IN /\ Log(i, <<[op |-> "update_configuration", scope |-> "Programs",
                       key |-> executable.file,
                       value |-> executable.arguments, by |-> thread[i]]>>)
          /\ programs' = (executable.file :> executable.arguments) @@ programs
    /\ pc' = [pc EXCEPT ![i] = "desktop"]
    /\ UNCHANGED <<viewed, jobs, catalog, flatpak, installedDeps, params, iconFiles,
                   desktopFiles, now, depJobs, idle, widget, manifest, thread,
                   idx>>

-----------------------------------------------------------------------------
(* __create_desktop_entry *)

\* (mutant) the name without the timestamp
DesktopFileUntimed(m, ts) == <<"bottle", m.Name, 0>>

\* lines 155-160: <applications>/<bottle name>--<manifest name>--<timestamp>
DesktopFile(m, ts) == <<"bottle", m.Name, ts>>

\* (mutant) the test of line 162 dropped
SandboxedNever == FALSE

\* line 162: "FLATPAK_ID" in os.environ
Sandboxed == flatpak

\* datetime.now() does not run backwards; under FLATPAK_ID nothing is
\* written; a write that fails leaves what open() and the earlier writes made
CreateDesktopEntry(i) ==
    /\ pc[i] = "desktop"
    /\ \E ts \in now..MaxTime :
         /\ now' = ts
         /\ IF Sandboxed
            THEN /\ UNCHANGED <<desktopFiles, calls>>
                 /\ pc' = [pc EXCEPT ![i] = "callback"]
            ELSE /\ Log(i, <<[op |-> "open", path |-> DesktopFile(manifest[i], ts),
                              ts |-> ts, by |-> thread[i]]>>)
                 /\ \/ /\ desktopFiles' =
                            (DesktopFile(manifest[i], ts) :> "complete")
                            @@ desktopFiles
                       /\ pc' = [pc EXCEPT ![i] = "callback"]
                    \/ /\ desktopFiles' =
                            (DesktopFile(manifest[i], ts) :> "partial")
                            @@ desktopFiles
                       /\ pc' = [pc EXCEPT ![i] = "OSError"]
    /\ UNCHANGED <<viewed, jobs, catalog, flatpak, installedDeps, params, programs, iconFiles,
                   depJobs, idle, widget, manifest, thread, idx>>

-----------------------------------------------------------------------------
(* The end of __async_install, and the main loop *)

\* (mutant) widget.set_installed() called where the job runs
UnlockWidgetDirectly(i) ==
    IF widget[i]
    THEN /\ Log(i, <<[op |-> "set_installed", by |-> thread[i]]>>)
         /\ UNCHANGED idle
    ELSE UNCHANGED <<idle, calls>>

\* lines 225-226: GLib.idle_add(widget.set_installed)
UnlockWidget(i) ==
    IF widget[i]
    THEN /\ idle' = Append(idle, i)
         /\ Log(i, <<[op |-> "idle_add", by |-> thread[i]]>>)
    ELSE UNCHANGED <<idle, calls>>

AsyncInstallEnd(i) ==
    /\ pc[i] = "callback"
    /\ UnlockWidget(i)
    /\ pc' = [pc EXCEPT ![i] = "done"]
    /\ UNCHANGED <<viewed, jobs, catalog, flatpak, installedDeps, params, programs, iconFiles,
                   desktopFiles, now, depJobs, widget, manifest, thread, idx>>

\* The GLib main loop runs a queued callback on the UI thread, once
MainLoopIdle ==
    /\ idle # <<>>
    /\ Log(Head(idle), <<[op |-> "set_installed", by |-> "ui"]>>)
    /\ idle' = Tail(idle)
    /\ UNCHANGED <<viewed, jobs, catalog, flatpak, installedDeps, params, programs, iconFiles,
                   desktopFiles, now, depJobs, pc, widget, manifest, thread,
                   idx>>

-----------------------------------------------------------------------------
(* Specifications *)

Next ==
    \/ \E i \in Installs : Install(i)
    \/ GetInstallerPlain
    \/ GetInstallerPlainReturns
    \/ \E i \in Installs : AsyncInstallFetch(i)
    \/ \E i \in Installs : DownloadIconCheck(i)
    \/ \E i \in Installs : DownloadIconRetrieve(i)
    \/ \E i \in Installs : InstallDependency(i)
    \/ \E d \in Deps : DependencyInstallEnds(d)
    \/ \E i \in Installs : PerformStepDownload(i)
    \/ \E i \in Installs : PerformStepLaunch(i)
    \/ \E i \in Installs : PerformStepReturn(i)
    \/ \E i \in Installs : SetParameters(i)
    \/ \E i \in Installs : SetExecutableArguments(i)
    \/ \E i \in Installs : CreateDesktopEntry(i)
    \/ \E i \in Installs : AsyncInstallEnd(i)
    \/ MainLoopIdle

AllFalse == [k \in ParamKeys |-> FALSE]
IconDirs == SUBSET {"app.png"}

\* Two installs into the same bottle, side by side, of a manifest that
\* declares everything or of one that declares nothing
Init ==
    InitWith({1, 2}, "both", Envs(BOOLEAN, {{}}, {AllFalse}, IconDirs))

\* One install, over every dependency list
InitDeps ==
    InitWith({1}, "dependencies",
             Envs(BOOLEAN, SUBSET Deps, {AllFalse}, IconDirs))

\* One install, over every step list
InitSteps ==
    InitWith({1}, "steps", Envs(BOOLEAN, {{}}, {AllFalse}, IconDirs))

\* One install, over every parameter map and every current configuration
InitParams ==
    InitWith({1}, "parameters",
             Envs(BOOLEAN, {{}}, [ParamKeys -> BOOLEAN], IconDirs))

\* The steps of the job of install i, which its worker thread takes
JobStep(i) ==
    \/ AsyncInstallFetch(i)
    \/ DownloadIconCheck(i)
    \/ DownloadIconRetrieve(i)
    \/ InstallDependency(i)
    \/ PerformStepDownload(i)
    \/ PerformStepLaunch(i)
    \/ PerformStepReturn(i)
    \/ SetParameters(i)
    \/ SetExecutableArguments(i)
    \/ CreateDesktopEntry(i)
    \/ AsyncInstallEnd(i)

Spec == Init /\ [][Next]_vars
SpecDeps == InitDeps /\ [][Next]_vars
SpecSteps == InitSteps /\ [][Next]_vars
SpecParams == InitParams /\ [][Next]_vars

\* A started job keeps running, and the calls it blocks in return; nothing
\* is assumed of the manager's dependency installs
SpecDepsFair ==
    InitDeps /\ [][Next]_vars /\ \A i \in Installs : WF_vars(JobStep(i))

-----------------------------------------------------------------------------
(* Reading the record of calls *)

\* The calls install i made in the step just taken
NewCalls(i) == SubSeq(calls'[i], Len(calls[i]) + 1, Len(calls'[i]))

\* The positions in a sequence of calls of the calls to op
At(cs, op) == {j \in 1..Len(cs) : cs[j].op = op}

\* The job is past __perform_steps
StepsDone(i) ==
    /\ Available(manifest[i])
    /\ pc[i] \in {"params", "args", "desktop", "callback", "done", "OSError"}

\* The job is past __set_parameters
ParamsDone(i) ==
    /\ Available(manifest[i])
    /\ pc[i] \in {"args", "desktop", "callback", "done", "OSError"}

\* The job has ended, by returning or by an exception nothing caught
Ended(i) == pc[i] \in {"done", "AttributeError", "URLError", "OSError"}

-----------------------------------------------------------------------------
(* The dependency stage *)

-----------------------------------------------------------------------------
(* The step stage *)

StepOps == {"download", "run_executable", "run_returned"}

\* C2: the calls of the steps are made in manifest order, and after a step's
\* run_executable no download and no run_executable is made before that
\* run_executable has returned.
C2_StepsSequential ==
    \A i \in Installs :
        \A a, b \in 1..Len(calls[i]) :
            (a < b /\ calls[i][a].op \in StepOps /\ calls[i][b].op \in StepOps)
            => /\ calls[i][a].step <= calls[i][b].step
               /\ (calls[i][a].op = "run_executable"
                   /\ calls[i][b].op \in {"download", "run_executable"})
                  => \E c \in (a + 1)..(b - 1) :
                        /\ calls[i][c].op = "run_returned"
                        /\ calls[i][c].step = calls[i][a].step

\* C2 witness: the second step is launched after the first one returned
C2_Witness ==
    \E i \in Installs :
        \E a, b, c \in 1..Len(calls[i]) :
            /\ a < b /\ b < c
            /\ calls[i][a].op = "run_executable" /\ calls[i][a].step = 1
            /\ calls[i][b].op = "run_returned" /\ calls[i][b].step = 1
            /\ calls[i][c].op = "run_executable" /\ calls[i][c].step = 2

\* C3: when __perform_steps has returned, every step with an install action
\* was staged exactly once, and was launched exactly when its own staging
\* succeeded (so not when it failed, and whatever happened to the others).
C3_FailedDownloadIsolated ==
    \A i \in Installs :
        StepsDone(i) =>
            \A k \in 1..Len(manifest[i].Steps) :
                IsInstallAction(manifest[i].Steps[k]) =>
                    LET dl == {j \in At(calls[i], "download") :
                                  calls[i][j].step = k}
                        run == {j \in At(calls[i], "run_executable") :
                                   calls[i][j].step = k}
                    IN /\ Cardinality(dl) = 1
                       /\ \A j \in dl :
                             Cardinality(run) = IF calls[i][j].result THEN 1
                                                ELSE 0

\* C3 witness: the first step's download failed and it was not launched, the
\* second step was staged and launched
C3_Witness ==
    \E i \in Installs :
        /\ StepsDone(i)
        /\ \E a, b \in At(calls[i], "download") :
              /\ calls[i][a].step = 1 /\ ~calls[i][a].result
              /\ calls[i][b].step = 2 /\ calls[i][b].result
        /\ \A j \in At(calls[i], "run_executable") : calls[i][j].step # 1
        /\ \E j \in At(calls[i], "run_executable") : calls[i][j].step = 2

-----------------------------------------------------------------------------
(* The parameter stage *)

ParameterWrites(cs) ==
    {j \in At(cs, "update_configuration") : cs[j].scope = "Parameters"}

\* C4: when __set_parameters runs while the configuration's dxvk (vkd3d) is
\* already enabled, it does not call install_dxvk (install_vkd3d).
C4_EnabledToggleNotInstalled ==
    [][\A i \in Installs :
         pc[i] = "params" =>
            /\ params["dxvk"] => At(NewCalls(i), "install_dxvk") = {}
            /\ params["vkd3d"] => At(NewCalls(i), "install_vkd3d") = {}]_vars

\* C5: install_dxvk is called at most once in an install; when
\* __set_parameters runs with dxvk declared enabled while the configuration's
\* dxvk is disabled, it calls install_dxvk exactly once, and only after that
\* it calls update_configuration for dxvk, with the value enabled.
C5_DxvkInstalledOnceThenPersisted ==
    [][\A i \in Installs :
         /\ Cardinality(At(calls'[i], "install_dxvk")) <= 1
         /\ (/\ pc[i] = "params" /\ pc'[i] # "params"
             /\ ParamGet(manifest[i].Parameters, "dxvk")
             /\ ~params["dxvk"])
            => LET new == NewCalls(i)
                   writes == {j \in ParameterWrites(new) : new[j].key = "dxvk"}
               IN /\ Cardinality(At(calls'[i], "install_dxvk")) = 1
                  /\ Cardinality(At(new, "install_dxvk")) = 1
                  /\ writes # {}
                  /\ \A a \in At(new, "install_dxvk") :
                        \A b \in writes : a < b /\ new[b].value
                  /\ params'["dxvk"]]_vars

\* C5 witness: an install called install_dxvk and then persisted dxvk
C5_Witness ==
    \E i \in Installs :
        /\ ParamsDone(i)
        /\ params["dxvk"]
        /\ \E a \in At(calls[i], "install_dxvk") :
              \E b \in ParameterWrites(calls[i]) :
                 a < b /\ calls[i][b].key = "dxvk" /\ calls[i][b].value

\* C6: when __set_parameters runs with vkd3d declared enabled while the
\* configuration's vkd3d is disabled, it calls install_vkd3d exactly once,
\* before it persists vkd3d.
C6_Vkd3dInstalledOnTransition ==
    [][\A i \in Installs :
         (/\ pc[i] = "params" /\ pc'[i] # "params"
          /\ ParamGet(manifest[i].Parameters, "vkd3d")
          /\ ~params["vkd3d"])
         => LET new == NewCalls(i)
                writes == {j \in ParameterWrites(new) : new[j].key = "vkd3d"}
            IN /\ Cardinality(At(new, "install_vkd3d")) = 1
               /\ \A a \in At(new, "install_vkd3d") :
                     \A b \in writes : a < b]_vars

\* C7: once __set_parameters has run, the install has made, for every key of
\* the manifest's Parameters, exactly one update_configuration call in scope
\* Parameters, with the manifest's value, and none for any other key; before
\* that it has made none.
C7_EveryParameterPersistedOnce ==
    \A i \in Installs :
        LET writes == ParameterWrites(calls[i])
        IN IF ParamsDone(i)
           THEN /\ \A k \in DOMAIN manifest[i].Parameters :
                      Cardinality({j \in writes : calls[i][j].key = k}) = 1
                /\ \A j \in writes :
                      /\ calls[i][j].key \in DOMAIN manifest[i].Parameters
                      /\ calls[i][j].value
                            = manifest[i].Parameters[calls[i][j].key]
           ELSE writes = {}

\* C7 witness: dxvk was enabled already, install_dxvk was not called, and the
\* declared value was written all the same
C7_Witness ==
    \E i \in Installs :
        /\ ParamsDone(i)
        /\ ParamGet(manifest[i].Parameters, "dxvk")
        /\ At(calls[i], "install_dxvk") = {}
        /\ \E j \in ParameterWrites(calls[i]) :
              calls[i][j].key = "dxvk" /\ calls[i][j].value

-----------------------------------------------------------------------------
(* The job as a whole *)

\* C8: no install job is ended by an error of the manifest fetch or of the
\* icon download.
C8_FetchAndIconFailuresHandled ==
    \A i \in Installs : pc[i] \notin {"AttributeError", "URLError"}

\* C9: an install job that has ended has dispatched the completion callback
\* exactly once if it was given a widget, and never if it was given none.
C9_CallbackDispatchedOnce ==
    \A i \in Installs :
        /\ Ended(i) =>
              Cardinality(At(calls[i], "idle_add")) = IF widget[i] THEN 1 ELSE 0
        /\ ~widget[i] => At(calls[i], "set_installed") = {}

\* C10: install() itself only starts the job, on the caller's thread; every
\* call of the stages is made by the worker; widget.set_installed is run by
\* the UI thread only, and only after the worker queued it with idle_add.
C10_CallbackOnlyOnUiThread ==
    \A i \in Installs :
        \A j \in 1..Len(calls[i]) :
            LET e == calls[i][j]
            IN CASE e.op = "RunAsync" -> j = 1 /\ e.by = "caller"
                 [] e.op = "set_installed" ->
                        /\ e.by = "ui"
                        /\ \E a \in At(calls[i], "idle_add") : a < j
                 [] OTHER -> e.by = "worker"

\* C10 witness: a job ran its steps on the worker and its callback ran on the
\* UI thread
C10_Witness ==
    \E i \in Installs :
        /\ pc[i] = "done"
        /\ \E j \in At(calls[i], "run_executable") : calls[i][j].by = "worker"
        /\ \E j \in At(calls[i], "set_installed") : calls[i][j].by = "ui"

-----------------------------------------------------------------------------
(* get_installer *)

\* Every get_installer call made so far, by the jobs and by the caller
GetInstallerRecords ==
    UNION {{calls[i][j] : j \in 1..Len(calls[i])} : i \in Installs}
    \cup {viewed}

\* C11: no get_installer call ends in an exception; without a connection it
\* returns False and has not called urlopen; when the request or the parsing
\* fails it returns False; a manifest (or, for plain=True, the text) is
\* returned only with a connection and a request and parsing that succeeded.
C11_GetInstallerNeverRaises ==
    \A e \in GetInstallerRecords :
        e.op = "get_installer" =>
            /\ e.returned # "raised"
            /\ ~e.conn => (e.returned = "False" /\ ~e.urlopen)
            /\ (e.conn /\ e.outcome # "ok") => e.returned = "False"
            /\ e.returned # "False" =>
                  /\ e.conn /\ e.urlopen /\ e.outcome = "ok"
                  /\ e.returned = IF e.plain THEN "text" ELSE "manifest"

\* C11 witness: an installer that is not found upstream gave False
C11_Witness ==
    \E i \in Installs :
        \E j \in At(calls[i], "get_installer") :
            /\ calls[i][j].conn
            /\ calls[i][j].outcome = "request_failed"
            /\ calls[i][j].returned = "False"

-----------------------------------------------------------------------------
(* The icon *)

\* C12: urlretrieve is called for an icon path only while no file exists at
\* that path, whichever installs run and however they overlap.
C12_IconDownloadedOnlyWhenAbsent ==
    [][\A i \in Installs :
         \A j \in At(NewCalls(i), "urlretrieve") :
            NewCalls(i)[j].path \notin iconFiles]_vars

-----------------------------------------------------------------------------
(* The desktop entry *)

\* C13: with FLATPAK_ID in the environment no step creates or changes a
\* desktop entry and no job is ended by an error of the desktop-entry stage;
\* the job goes from that stage to the completion callback, and dispatches
\* it exactly when it was given a widget.
C13_SandboxWritesNoEntry ==
    [][flatpak =>
         /\ desktopFiles' = desktopFiles
         /\ \A i \in Installs :
               /\ pc'[i] # "OSError"
               /\ At(calls'[i], "open") = {}
               /\ (pc[i] = "desktop" /\ pc'[i] # "desktop")
                  => pc'[i] = "callback"
               /\ (pc[i] = "callback" /\ pc'[i] # "callback")
                  => /\ pc'[i] = "done"
                     /\ Cardinality(At(NewCalls(i), "idle_add"))
                           = IF widget[i] THEN 1 ELSE 0]_vars

\* C13 witness: a sandboxed job has ended with its callback dispatched and
\* no desktop entry exists
C13_Witness ==
    /\ flatpak
    /\ DOMAIN desktopFiles = {}
    /\ \E i \in Installs :
          pc[i] = "done" /\ widget[i] /\ At(calls[i], "idle_add") # {}

\* C14: every file at a desktop-entry path holds the complete entry.
C14_DesktopEntryAllOrNothing ==
    \A p \in DOMAIN desktopFiles : desktopFiles[p] = "complete"

-----------------------------------------------------------------------------
(* The executable arguments *)

ProgramWrites(cs) ==
    {j \in At(cs, "update_configuration") : cs[j].scope = "Programs"}

\* The job is past the registration of the executable arguments
ArgsDone(i) ==
    /\ Available(manifest[i])
    /\ pc[i] \in {"desktop", "callback", "done", "OSError"}

\* C15: a job that is past the registration stage has made exactly one
\* update_configuration call in scope Programs, keyed by the executable's
\* file and carrying its arguments, if the executable declares arguments,
\* and none if it declares none; before that stage it has made none.
C15_ArgumentsPersistedIffDeclared ==
    \A i \in Installs :
        LET writes == ProgramWrites(calls[i])
        IN IF ArgsDone(i) /\ manifest[i].Executable.arguments # None
           THEN /\ Cardinality(writes) = 1
                /\ \A j \in writes :
                      /\ calls[i][j].key = manifest[i].Executable.file
                      /\ calls[i][j].value = manifest[i].Executable.arguments
           ELSE writes = {}

\* C15 witness: one job declared arguments and wrote them, the other
\* declared none and wrote nothing
C15_Witness ==
    \E i, k \in Installs :
        /\ ArgsDone(i) /\ manifest[i].Executable.arguments = "-w"
        /\ ProgramWrites(calls[i]) # {}
        /\ "app.exe" \in DOMAIN programs
        /\ ArgsDone(k) /\ manifest[k].Executable.arguments = None
        /\ ProgramWrites(calls[k]) = {}

-----------------------------------------------------------------------------
(* Fire and forget *)

-----------------------------------------------------------------------------
(* The names of the desktop entries *)

\* C17: when a job opens its desktop entry, every entry that another job
\* opened for a manifest of the same Name at another timestamp has another
\* path, is still there and is unchanged.
C17_EntriesOfDifferentTimesDistinct ==
    [][\A i \in Installs :
         \A a \in At(NewCalls(i), "open") :
            \A k \in Installs \ {i} :
               \A b \in At(calls[k], "open") :
                  (/\ manifest[k].Name = manifest[i].Name
                   /\ calls[k][b].ts # NewCalls(i)[a].ts)
                  => /\ calls[k][b].path # NewCalls(i)[a].path
                     /\ calls[k][b].path \in DOMAIN desktopFiles'
                     /\ desktopFiles'[calls[k][b].path]
                           = desktopFiles[calls[k][b].path]]_vars

\* C17 witness: two jobs wrote their entries at different timestamps and
\* both entries exist
C17_Witness ==
    \E i, k \in Installs :
        /\ pc[i] = "done" /\ pc[k] = "done"
        /\ \E a \in At(calls[i], "open") :
              \E b \in At(calls[k], "open") :
                 /\ calls[i][a].ts # calls[k][b].ts
                 /\ {calls[i][a].path, calls[k][b].path}
                       \subseteq DOMAIN desktopFiles
        /\ Cardinality(DOMAIN desktopFiles) = 2

-----------------------------------------------------------------------------
(* The order of the stages *)

\* The stage a call belongs to, numbered in the order of the claim
StageOf(e) ==
    CASE e.op = "RunAsync" -> 0
      [] e.op = "get_installer" -> 1
      [] e.op = "urlretrieve" -> 2
      [] e.op = "async_install_dependency" -> 3
      [] e.op \in StepOps -> 4
      [] e.op \in {"install_dxvk", "install_vkd3d"} -> 5
      [] e.op = "update_configuration" ->
            IF e.scope = "Parameters" THEN 5 ELSE 6
      [] e.op = "open" -> 7
      [] e.op = "idle_add" -> 8
      [] e.op = "set_installed" -> 9

Count(cs, op) == Cardinality(At(cs, op))

\* C18: the calls of a job are made stage after stage in the order fetch,
\* icon, dependencies, steps, parameters, arguments, desktop entry, callback;
\* the manifest is fetched once, the icon is requested only if one is
\* declared, and no call of a stage is repeated; a job that has returned has
\* run every stage its manifest asks for.
C18_StagesInOrderOnce ==
    \A i \in Installs :
        LET cs == calls[i]
            m == manifest[i]
        IN /\ \A a, b \in 1..Len(cs) :
                 a < b => StageOf(cs[a]) <= StageOf(cs[b])
           /\ Count(cs, "get_installer")
                 = IF pc[i] \in {"idle", "fetch"} THEN 0 ELSE 1
           /\ Count(cs, "urlretrieve") <= 1
           /\ Count(cs, "urlretrieve") = 1 => m.Executable.icon # None
           /\ Count(cs, "open") <= 1
           /\ Count(cs, "idle_add") <= 1
           /\ Cardinality(ProgramWrites(cs)) <= 1
           /\ Available(m) =>
                 /\ Count(cs, "async_install_dependency") <= Len(m.Dependencies)
                 /\ \A k \in 1..Len(m.Steps) :
                       Cardinality({j \in At(cs, "download") : cs[j].step = k})
                          <= 1
                 /\ \A key \in ParamKeys :
                       Cardinality({j \in ParameterWrites(cs) : cs[j].key = key})
                          <= 1
           /\ pc[i] = "done" =>
                 /\ \A k \in 1..Len(m.Steps) :
                       m.Steps[k].action \in {"install_exe", "install_msi"}
                       => \E j \in At(cs, "download") : cs[j].step = k
                 /\ DOMAIN m.Parameters # {} => ParameterWrites(cs) # {}
                 /\ m.Executable.arguments # None => ProgramWrites(cs) # {}
                 /\ ~flatpak => Count(cs, "open") = 1
                 /\ widget[i] => Count(cs, "idle_add") = 1

\* C18 witness: a job has gone through every stage, each with a call
C18_Witness ==
    \E i \in Installs :
        /\ pc[i] = "done"
        /\ \A op \in {"get_installer", "urlretrieve", "async_install_dependency",
                      "download", "run_executable", "install_dxvk",
                      "update_configuration", "open", "idle_add",
                      "set_installed"} :
              At(calls[i], op) # {}
        /\ ProgramWrites(calls[i]) # {}

-----------------------------------------------------------------------------
(* What the launcher is given *)

\* C19: when __perform_steps has returned, every install_exe or install_msi
\* step whose download succeeded was launched exactly once, with the file
\* named by its rename if it has one and by its file_name otherwise and with
\* its own arguments and environment (None when it declares none); a step
\* with another action was neither staged nor launched.
C19_LaunchedOnceWithItsOwnFile ==
    \A i \in Installs :
        StepsDone(i) =>
            \A k \in 1..Len(manifest[i].Steps) :
                LET st == manifest[i].Steps[k]
                    dl == {j \in At(calls[i], "download") : calls[i][j].step = k}
                    run == {j \in At(calls[i], "run_executable") :
                               calls[i][j].step = k}
                IN IF st.action \in {"install_exe", "install_msi"}
                   THEN (\E j \in dl : calls[i][j].result)
                        => /\ Cardinality(run) = 1
                           /\ \A j \in run :
                                 /\ calls[i][j].file =
                                       IF st.rename # None THEN st.rename
                                       ELSE st.file_name
                                 /\ calls[i][j].arguments = st.arguments
                                 /\ calls[i][j].environment = st.environment
                   ELSE dl = {} /\ run = {}

\* C19 witness: a renamed step was launched under its new name, after a step
\* of another action that was passed over
C19_Witness ==
    \E i \in Installs :
        /\ StepsDone(i)
        /\ Len(manifest[i].Steps) >= 2
        /\ manifest[i].Steps[1].action = "other"
        /\ manifest[i].Steps[2].rename = "inst.msi"
        /\ \E j \in At(calls[i], "run_executable") :
              /\ calls[i][j].step = 2
              /\ calls[i][j].file = "inst.msi"
              /\ calls[i][j].arguments = "/S"

-----------------------------------------------------------------------------
(* The configuration is changed through the manager only *)

\* C20: Installed_Dependencies changes only in steps of the manager, never
\* in a step of a job; Parameters and Programs change only in a step in which
\* a job calls update_configuration for that scope (and key); every
\* update_configuration call is for scope Parameters or Programs, and none is
\* made in the dependency stage or the step stage.
C20_ConfigurationOnlyThroughManager ==
    [][/\ installedDeps' # installedDeps
          => (pc' = pc /\ idx' = idx /\ calls' = calls)
       /\ \A key \in ParamKeys :
             params'[key] # params[key]
             => \E i \in Installs :
                   \E j \in ParameterWrites(NewCalls(i)) :
                      /\ NewCalls(i)[j].key = key
                      /\ NewCalls(i)[j].value = params'[key]
       /\ DOMAIN programs' # DOMAIN programs
             => \E i \in Installs : ProgramWrites(NewCalls(i)) # {}
       /\ \A i \in Installs :
             \A j \in At(NewCalls(i), "update_configuration") :
                /\ NewCalls(i)[j].scope \in {"Parameters", "Programs"}
                /\ pc[i] \notin {"deps", "steps", "launch", "running"}]_vars

\* C20 witness: a job has written both scopes and the configuration holds
\* what it wrote
C20_Witness ==
    \E i \in Installs :
        /\ ParameterWrites(calls[i]) # {}
        /\ ProgramWrites(calls[i]) # {}
        /\ params["dxvk"]
        /\ "app.exe" \in DOMAIN programs

====
